---- MODULE Spec2Model ----
(***************************************************************************)
(* Model of the remote timelapse controller:                               *)
(*   local_tp.py      SlackNotifier, PiCameraController                    *)
(*   timelapse_bot.py TimelapseBot (chat command dispatcher)               *)
(* The specifications share the definitions below:                         *)
(*   Spec          the controller with its threads (driver or chat bot)    *)
(*   SpecNotifier  the notifier called as the controller calls it          *)
(*   SpecCooldown  the notifier over time, for the cooldowns               *)
(*   SpecFlags     the notifier under the settings of its flags            *)
(*   SpecParse     the bot parsing one inbound text                        *)
(*   SpecPoll      the bot polling the channel history                     *)
(*   SpecCleanup   the retention cleanup of the output directory            *)
(*   SpecDriver    the driver alone, over the notification intervals       *)
(*   SpecLoop      the driver with a clock that keeps advancing            *)
(***************************************************************************)
EXTENDS Integers, Sequences, FiniteSets, TLC

VARIABLES host, now, config, camera, image_count, start_time, slack,
          notifications, th, out, sentAt, bot, files

vars == <<host, now, config, camera, image_count, start_time, slack,
          notifications, th, out, sentAt, bot, files>>

(***************************************************************************)
(* Bounds of the model                                                     *)
(***************************************************************************)
\* wall-clock reading when the process starts (time.time() is far from 0)
BootTime == 1000
\* the clock stops advancing this many seconds after BootTime (Spec, driver)
HorizonDriver == 2
\* the clock stops advancing this many seconds after BootTime (Spec, bot)
HorizonBot == 1
\* the clock stops advancing this many seconds after BootTime (SpecCooldown)
HorizonN == 400
\* largest image count handed to the notifier in SpecNotifier
MaxCount == 10
\* message ids the sink hands out at most
MaxTs == 2
\* messages posted in the channel at most (SpecPoll)
MaxMessages == 3
\* a message is handed to _process_mention at most this often (SpecPoll)
MaxRuns == 2
\* images in the output directory, and the retention limit, at most
\* (SpecCleanup)
MaxFiles == 4

(***************************************************************************)
(* Program constants                                                       *)
(***************************************************************************)
health_warning_cooldown == 300
photo_cooldown == 120

None == 0

(***************************************************************************)
(* Text formatting used in the messages                                    *)
(***************************************************************************)
DigitChars == <<"0", "1", "2", "3", "4", "5", "6", "7", "8", "9">>

RECURSIVE Digits(_)
\* str(n) for n >= 0, as a sequence of characters
Digits(n) == IF n < 10 THEN <<DigitChars[n + 1]>>
             ELSE Digits(n \div 10) \o <<DigitChars[(n % 10) + 1]>>

RECURSIVE GroupThousands(_)
GroupThousands(d) ==
    IF Len(d) <= 3 THEN d
    ELSE GroupThousands(SubSeq(d, 1, Len(d) - 3)) \o <<",">>
         \o SubSeq(d, Len(d) - 2, Len(d))

\* f"{n:,}"
FormatThousands(n) == GroupThousands(Digits(n))

\* f"{n:04d}"
Format04(n) ==
    LET d == Digits(n)
    IN  IF Len(d) >= 4 THEN d ELSE [i \in 1..(4 - Len(d)) |-> "0"] \o d

\* f"timelapse_{image_count:04d}.jpg"
PhotoFilename(count) == <<"timelapse_">> \o Format04(count) \o <<".jpg">>

(***************************************************************************)
(* MessageSink (Slack Web API) outcomes of one call                        *)
(***************************************************************************)
SinkOutcomes == {"ok", "not_ok", "api_error", "exception"}

NoText == <<>>

\* one call made on the sink
Post(api, kind, thread, outcome, file, sizeText) ==
    [api |-> api, kind |-> kind, thread_ts |-> thread, outcome |-> outcome,
     file |-> file, sizeText |-> sizeText]

\* the result of one notifier call: the notifier's state after it, the value
\* returned, whether it raised, whether it reached its delivery step, and the
\* calls it made on the sink
Res(s, ret, raised, delivery, posts) ==
    [slack |-> s, ret |-> ret, raised |-> raised, delivery |-> delivery,
     posts |-> posts]

\* variant of ThreadArg in which every message carries the stored thread_ts
ThreadArgAlways(s, in_thread) == s.thread_ts

\* if in_thread and self.thread_ts: message_kwargs["thread_ts"] = self.thread_ts
ThreadArg(s, in_thread) == IF in_thread /\ s.thread_ts # None THEN s.thread_ts ELSE None

\* variant of UploadImageFallback whose text leaves the size out
UploadImageFallbackNoSize(s, size, filename, in_thread, o2) ==
    Res(s, o2 = "ok", FALSE, TRUE,
        <<Post("postText", "PhotoFallback", ThreadArg(s, in_thread), o2,
               filename, NoText)>>)

\* _upload_image_fallback: a text message naming the file and its size
UploadImageFallback(s, size, filename, in_thread, o2) ==
    Res(s, o2 = "ok", FALSE, TRUE,
        <<Post("postText", "PhotoFallback", ThreadArg(s, in_thread), o2,
               filename, FormatThousands(size))>>)

\* _upload_image: files_upload_v2, and the fallback on every failure
UploadImage(s, size, filename, in_thread, o1, o2) ==
    LET up == Post("postImage", "Photo", ThreadArg(s, in_thread), o1, filename, NoText)
    IN  IF o1 = "ok"
        THEN Res(s, TRUE, FALSE, TRUE, <<up>>)
        ELSE LET fb == UploadImageFallback(s, size, filename, in_thread, o2)
             IN  Res(s, fb.ret, FALSE, TRUE, <<up>> \o fb.posts)

\* _send_message
SendMessage(s, kind, size, filename, in_thread, o1, o2) ==
    IF ~s.enabled THEN Res(s, FALSE, FALSE, TRUE, <<>>)
    ELSE IF size > 0 /\ filename # NoText
         THEN UploadImage(s, size, filename, in_thread, o1, o2)
         ELSE Res(s, o1 = "ok", FALSE, TRUE,
                  <<Post("postText", kind, ThreadArg(s, in_thread), o1, NoText, NoText)>>)

NotSent(s) == Res(s, FALSE, FALSE, FALSE, <<>>)
Raised(s) == Res(s, FALSE, TRUE, FALSE, <<>>)

\* send_error
SendError(s, nf, o1) ==
    IF ~nf.errors THEN NotSent(s)
    ELSE SendMessage(s, "Error", 0, NoText, FALSE, o1, o1)

\* variant of SendWarning that does not look at its flag
SendWarningNoFlag(s, nf, o1) == SendMessage(s, "Warning", 0, NoText, FALSE, o1, o1)

\* send_warning
SendWarning(s, nf, o1) ==
    IF ~nf.warnings THEN NotSent(s)
    ELSE SendMessage(s, "Warning", 0, NoText, FALSE, o1, o1)

\* send_start_notification: posts with self.client directly
SendStartNotification(s, nf, o1) ==
    IF ~nf.start_stop THEN NotSent(s)
    ELSE IF ~s.client THEN Raised(s)
    ELSE LET p == <<Post("postText", "SessionStart", None, o1, NoText, NoText)>>
         IN  CASE o1 = "ok" ->
                    Res([s EXCEPT !.thread_ts = s.ts_seq + 1, !.ts_seq = s.ts_seq + 1],
                        TRUE, FALSE, TRUE, p)
               [] o1 = "not_ok" -> Res(s, FALSE, FALSE, TRUE, p)
               [] o1 = "api_error" -> Res(s, FALSE, FALSE, TRUE, p)
               [] OTHER -> Res(s, FALSE, TRUE, TRUE, p)

\* send_stop_notification
SendStopNotification(s, nf, o1) ==
    IF ~nf.start_stop THEN NotSent(s)
    ELSE SendMessage(s, "SessionStop", 0, NoText, TRUE, o1, o1)

\* variant of ProgressGate that lets every count through
ProgressGateAlways(count, interval) == TRUE
\* the frequency gate of send_progress_update
ProgressGate(count, interval) == count % interval = 0

\* send_progress_update
SendProgressUpdate(s, nf, count, o1) ==
    IF ~nf.progress_updates THEN NotSent(s)
    ELSE IF nf.progress_interval = 0 THEN Raised(s)
    ELSE IF ~ProgressGate(count, nf.progress_interval) THEN NotSent(s)
    ELSE SendMessage(s, "Progress", 0, NoText, TRUE, o1, o1)

\* the gates of send_photo_notification
PhotoGate(s, nf, count, t) ==
    /\ count % nf.photo_interval = 0
    /\ ~(t - s.last_photo_notification < photo_cooldown)

\* send_photo_notification
SendPhotoNotification(s, nf, size, count, t, o1, o2) ==
    IF ~nf.send_photos THEN NotSent(s)
    ELSE IF nf.photo_interval = 0 THEN Raised(s)
    ELSE IF ~PhotoGate(s, nf, count, t) THEN NotSent(s)
    ELSE SendMessage([s EXCEPT !.last_photo_notification = t], "Photo", size,
                     PhotoFilename(count), TRUE, o1, o2)

\* the cooldown gate of the health alerts
HealthCooldownOver(s, t) == ~(t - s.last_health_warning < health_warning_cooldown)

\* send_temperature_alert
SendTemperatureAlert(s, nf, t, o1) ==
    IF ~nf.temperature_alerts THEN NotSent(s)
    ELSE IF ~HealthCooldownOver(s, t) THEN NotSent(s)
    ELSE SendMessage([s EXCEPT !.last_health_warning = t], "TemperatureAlert", 0,
                     NoText, FALSE, o1, o1)

\* send_disk_space_alert
SendDiskSpaceAlert(s, nf, t, o1) ==
    IF ~nf.disk_space_alerts THEN NotSent(s)
    ELSE IF ~HealthCooldownOver(s, t) THEN NotSent(s)
    ELSE SendMessage([s EXCEPT !.last_health_warning = t], "DiskAlert", 0,
                     NoText, FALSE, o1, o1)

(***************************************************************************)
(* Threads                                                                 *)
(*   <<"m", 0>>  the main thread of the driver (PiCameraController.run)    *)
(*   <<"w", i>>  a thread of the bot processing one inbound command        *)
(*   <<"l", i>>  a thread spawned by a start command (run_timelapse)       *)
(***************************************************************************)
Main == <<"m", 0>>
Workers == {"w"} \X {1}
\* the first and the second start command of a run each get a thread
LoopThreads == {<<"l", 1>>, <<"l", 2>>}
Threads == {Main} \cup Workers \cup LoopThreads

\* thread of SpecNotifier's caller
Caller == <<"n", 0>>

Kinds == {"Error", "Warning", "SessionStart", "SessionStop", "Progress", "Photo",
          "TemperatureAlert", "DiskAlert"}

\* the kinds posted into the conversation of a session
SessionKinds == {"SessionStart", "SessionStop", "Progress", "Photo"}

\* the kinds with a cooldown
GatedKinds == {"Photo", "TemperatureAlert", "DiskAlert"}

NoCmd == [type |-> "none", interval |-> 0, duration |-> 0]
NoReply == [cmd |-> "none", status |-> "none", running |-> FALSE]
NoOut == [kind |-> "none", by |-> Caller, count |-> 0, size |-> 0, at |-> 0,
          prevSent |-> 0, ret |-> FALSE, raised |-> FALSE, delivery |-> FALSE,
          posts |-> <<>>]

\* the bot's transport and parser, before any inbound message
Bot0 == [pc |-> "none", text |-> <<>>, input |-> <<>>, parsed |-> NoCmd,
         \* the channel: whether its i-th message, of timestamp i, mentions
         \* the bot
         history |-> <<>>,
         \* message.get("user") of the i-th message
         authors |-> <<>>,
         \* _poll_for_commands: last_timestamp, response["messages"] as
         \* timestamps, the position of the for loop in it
         last_timestamp |-> None, messages |-> <<>>, idx |-> 0,
         \* how many times each message was handed to _process_mention
         runs |-> <<>>]

Thread0(pc0) ==
    [pc |-> pc0, ret |-> "none", interval |-> 0, end_time |-> 0, wake |-> 0,
     ct |-> 0, result |-> FALSE, tmp |-> 0, size |-> 0, cmd |-> NoCmd,
     reply |-> NoReply, alert |-> "none",
     \* when capture_image last returned to the loop of this thread
     last_try |-> None,
     \* subscription mode: the events_api request that this thread handles
     \* has not been acknowledged yet (send_socket_mode_response)
     unacked |-> FALSE,
     \* calls of send_error and send_warning, with their flag on, that the
     \* loop of this thread made for its current health check or capture
     notes |-> 0,
     \* history of the session this thread runs
     started |-> FALSE, startTs |-> None, stops |-> 0, succ |-> 0,
     reported |-> -1,
     stopReq |-> FALSE]

\* inputs of Spec
TimelapseEnabled == {TRUE, FALSE}
DriverIntervals == {-1, 1}
DriverDurations == {2}
StartIntervals == {1}
StartDurations == {1}
ImageSizes == {0, 1000}
ImageSizesN == {0, 1, 999, 1000, 1234567}
Sensors == {"ok", "hot", "low_disk", "read_error"}

AllOn == [errors |-> TRUE, warnings |-> TRUE, start_stop |-> TRUE,
          progress_updates |-> TRUE, progress_interval |-> 2,
          send_photos |-> TRUE, photo_interval |-> 1,
          temperature_alerts |-> TRUE, disk_space_alerts |-> TRUE]

NotificationChoices == {AllOn}

\* SlackNotifier.__init__: enabled only with a client; no client when the
\* configuration disables Slack or gives no token
SlackInits ==
    {[enabled |-> e, client |-> c, thread_ts |-> None, ts_seq |-> 0,
      last_photo_notification |-> 0, last_health_warning |-> 0] :
        e \in BOOLEAN, c \in BOOLEAN} \ {x \in
    {[enabled |-> e, client |-> c, thread_ts |-> None, ts_seq |-> 0,
      last_photo_notification |-> 0, last_health_warning |-> 0] :
        e \in BOOLEAN, c \in BOOLEAN} : x.enabled /\ ~x.client}

NoCamera == [handle |-> "None", mode |-> "main"]

Init ==
    /\ files = {}
    /\ bot = Bot0
    /\ host \in {"driver", "bot"}
    /\ now = BootTime
    /\ config \in [enabled : TimelapseEnabled, interval : DriverIntervals,
                   duration : DriverDurations]
    /\ camera = NoCamera
    /\ image_count = 0
    /\ start_time = None
    /\ slack \in SlackInits
    /\ notifications \in NotificationChoices
    /\ th = [t \in Threads |->
                IF t = Main THEN Thread0(IF host = "driver" THEN "run_mkdir" ELSE "serving")
                ELSE IF t \in Workers THEN Thread0(IF host = "bot" THEN "w_idle" ELSE "absent")
                ELSE Thread0("unborn")]
    /\ out = NoOut
    /\ sentAt = [k \in GatedKinds |-> 0]

(***************************************************************************)
(* Helpers of the actions                                                  *)
(***************************************************************************)
\* a notifier call made by thread t at time at: its effect on the notifier,
\* recorded in out; sentAt keeps when a message of a kind with a cooldown was
\* last delivered
Emit(kind, t, count, size, at, r) ==
    /\ slack' = r.slack
    /\ out' = [kind |-> kind, by |-> IF kind \in SessionKinds THEN t ELSE Caller,
               count |-> count, size |-> size,
               at |-> IF kind \in GatedKinds THEN at ELSE 0,
               prevSent |-> IF kind \in GatedKinds THEN sentAt[kind] ELSE 0,
               ret |-> r.ret, raised |-> r.raised,
               delivery |-> r.delivery, posts |-> r.posts]
    /\ sentAt' = IF r.ret /\ kind \in GatedKinds THEN [sentAt EXCEPT ![kind] = at]
                 ELSE sentAt

\* the outcomes Spec draws for a call of _send_message, which tells only
\* success from failure, and for the post of send_start_notification
MessageOutcomes == {"ok", "exception"}
StartOutcomes == {"ok", "api_error", "exception"}

\* the outcome of a sink call matters only when the call is made
Outcomes(made) == IF made THEN MessageOutcomes ELSE {"ok"}

\* the pcs of run_timelapse between the start notification and the stop one
SessionPcs == {"rt_send_start", "rt_read_config",
               "rt_health", "rt_alert_send", "rt_health_warn",
               "rt_after_capture", "rt_sleeping",
               "rt_kbint", "rt_exc", "rt_finally"}
CapturePcs == {"ci_entry", "ci_capture", "ci_incr_read", "ci_incr_write",
               "ci_progress", "ci_photo", "pn_switch_low", "pn_capture",
               "pn_switch_main", "pn_send", "ci_cleanup", "ci_fail"}

\* thread t is inside run_timelapse with its session under way
InSession(t) ==
    \/ th[t].pc \in SessionPcs
    \/ th[t].pc \in CapturePcs /\ th[t].ret = "rt_after_capture"

\* thread t is inside the while loop of run_timelapse
InLoop(t) ==
    \/ th[t].pc \in {"rt_health", "rt_alert_send", "rt_health_warn",
                     "rt_after_capture", "rt_sleeping"}
    \/ th[t].pc \in CapturePcs /\ th[t].ret = "rt_after_capture"

\* where run_timelapse returns to, and where an exception escaping it goes
Returned(t) == IF t = Main THEN "run_video" ELSE "done"
Escaped(t) == IF t = Main THEN "run_failed" ELSE "crashed"

Runners == {Main} \cup LoopThreads

(***************************************************************************)
(* The clock                                                               *)
(***************************************************************************)
\* the pcs at which a thread waits: outside its code, in time.sleep, or in a
\* call on the Capturer
WaitingPcs == {"unborn", "done", "crashed", "exit", "serving", "absent", "w_idle",
               "rt_sleeping", "ci_capture", "pn_switch_low", "pn_capture",
               "pn_switch_main"}

\* time passes while the threads wait; the other steps take no time
Tick ==
    /\ now < BootTime + (IF host = "driver" THEN HorizonDriver ELSE HorizonBot)
    /\ \A t \in Threads : th[t].pc \in WaitingPcs
    /\ now' = now + 1
    /\ UNCHANGED <<files, bot, host, config, camera, image_count, start_time, slack,
                   notifications, th, out, sentAt>>

(***************************************************************************)
(* PiCameraController.run (driver)                                         *)
(***************************************************************************)
\* _create_output_directory
RunCreateOutputDirectory(t) ==
    /\ th[t].pc = "run_mkdir"
    /\ \E ok \in BOOLEAN :
          th' = [th EXCEPT ![t].pc = IF ok THEN "run_setup" ELSE "run_cleanup",
                           ![t].result = ok]
    /\ UNCHANGED <<files, bot, host, now, config, camera, image_count, start_time, slack,
                   notifications, out, sentAt>>

\* variant of AfterSetup in which run goes on to run_timelapse whatever
\* _setup_camera returned
AfterSetupAlways(ok) == "rt_enter"

\* if not self._setup_camera(): return False
AfterSetup(ok) == IF ok THEN "rt_enter" ELSE "run_cleanup"

\* _setup_camera
RunSetupCamera(t) ==
    /\ th[t].pc = "run_setup"
    /\ \/ /\ camera' = [handle |-> "Ready", mode |-> "main"]
          /\ th' = [th EXCEPT ![t].pc = AfterSetup(TRUE)]
          /\ UNCHANGED <<slack, out, sentAt>>
       \/ /\ \E o \in Outcomes(notifications.errors /\ slack.enabled) :
                Emit("Error", t, 0, 0, now, SendError(slack, notifications, o))
          /\ th' = [th EXCEPT ![t].pc = AfterSetup(FALSE), ![t].result = FALSE]
          /\ UNCHANGED camera
    /\ UNCHANGED <<files, bot, host, now, config, image_count, start_time, notifications>>

\* create_video, then the value run returns
RunCreateVideo(t) ==
    /\ th[t].pc = "run_video"
    /\ th' = [th EXCEPT ![t].pc = "run_cleanup", ![t].result = TRUE]
    /\ UNCHANGED <<files, bot, host, now, config, camera, image_count, start_time, slack,
                   notifications, out, sentAt>>

\* except Exception in run: return False
RunFailed(t) ==
    /\ th[t].pc = "run_failed"
    /\ th' = [th EXCEPT ![t].pc = "run_cleanup", ![t].result = FALSE]
    /\ UNCHANGED <<files, bot, host, now, config, camera, image_count, start_time, slack,
                   notifications, out, sentAt>>

\* cleanup (finally of run)
RunCleanup(t) ==
    /\ th[t].pc = "run_cleanup"
    /\ camera' = IF camera.handle = "None" THEN camera
                 ELSE [camera EXCEPT !.handle = "Closed"]
    /\ th' = [th EXCEPT ![t].pc = "exit"]
    /\ UNCHANGED <<files, bot, host, now, config, image_count, start_time, slack,
                   notifications, out, sentAt>>

\* variant of EnterNext in which run_timelapse goes to its loop without
\* calling send_start_notification
EnterNextNoStart(t, enabled) == IF ~enabled THEN Returned(t) ELSE "rt_read_config"

\* if not enabled: return; otherwise start_time is set and
\* send_start_notification is the next statement
EnterNext(t, enabled) == IF ~enabled THEN Returned(t) ELSE "rt_send_start"

(***************************************************************************)
(* PiCameraController.run_timelapse                                        *)
(***************************************************************************)
\* the enabled test, and start_time = time.time()
RtEnter(t) ==
    /\ th[t].pc = "rt_enter"
    /\ th' = [th EXCEPT ![t].pc = EnterNext(t, config.enabled)]
    /\ start_time' = IF ~config.enabled THEN start_time ELSE now
    /\ UNCHANGED <<files, bot, host, now, config, camera, image_count, slack,
                   notifications, out, sentAt>>

\* self.slack.send_start_notification(), outside the try block
RtSendStart(t) ==
    /\ th[t].pc = "rt_send_start"
    /\ \E o \in IF notifications.start_stop /\ slack.client THEN StartOutcomes
                 ELSE {"ok"} :
          LET r == SendStartNotification(slack, notifications, o)
          IN  /\ r.slack.ts_seq <= MaxTs
              /\ Emit("SessionStart", t, 0, 0, now, r)
              /\ th' = [th EXCEPT ![t].pc = IF r.raised THEN Escaped(t)
                                            ELSE "rt_read_config",
                                  ![t].started = TRUE,
                                  ![t].startTs = IF r.ret THEN r.slack.thread_ts
                                                 ELSE None]
    /\ UNCHANGED <<files, bot, host, now, config, camera, image_count, start_time,
                   notifications>>

\* a variant of the test that lets an iteration begin at end_time itself
LoopTestLate(end_time) == IF now <= end_time THEN "rt_health" ELSE "rt_finally"

\* while time.time() < end_time: where the loop goes from its test
LoopTest(end_time) == IF now < end_time THEN "rt_health" ELSE "rt_finally"

\* interval = self.config[...]; duration = self.config[...];
\* end_time = self.start_time + duration; the first test of the loop
RtReadConfig(t) ==
    /\ th[t].pc = "rt_read_config"
    /\ th' = [th EXCEPT ![t].pc = LoopTest(start_time + config.duration),
                        ![t].interval = config.interval,
                        ![t].end_time = start_time + config.duration]
    /\ UNCHANGED <<files, bot, host, now, config, camera, image_count, start_time, slack,
                   notifications, out, sentAt>>

\* one call of send_error or send_warning counts when its flag is on
Noted(flag) == IF flag THEN 1 ELSE 0

\* the flag of the alert a sensor reading leads to
AlertFlag(sensor) == IF sensor = "hot" THEN notifications.temperature_alerts
                     ELSE notifications.disk_space_alerts
AlertKind(sensor) == IF sensor = "hot" THEN "TemperatureAlert" ELSE "DiskAlert"

\* _check_system_health up to the cooldown test of the alert it sends; a
\* healthy check goes on to capture_image
RtCheckSystemHealth(t) ==
    /\ th[t].pc = "rt_health"
    /\ \E sensor \in Sensors :
          CASE sensor = "ok" ->
                 /\ th' = [th EXCEPT ![t].pc = "ci_entry", ![t].ret = "rt_after_capture",
                                     ![t].notes = 0]
                 /\ UNCHANGED <<slack, out, sentAt>>
            [] sensor = "read_error" ->
                 /\ \E o \in Outcomes(notifications.errors /\ slack.enabled) :
                       Emit("Error", t, 0, 0, now, SendError(slack, notifications, o))
                 /\ th' = [th EXCEPT ![t].pc = "rt_health_warn",
                                     ![t].notes = Noted(notifications.errors)]
            [] OTHER ->
                 IF AlertFlag(sensor) /\ HealthCooldownOver(slack, now)
                 THEN /\ th' = [th EXCEPT ![t].pc = "rt_alert_send", ![t].ct = now,
                                          ![t].alert = sensor, ![t].notes = 0]
                      /\ UNCHANGED <<slack, out, sentAt>>
                 ELSE /\ Emit(AlertKind(sensor), t, 0, 0, now, NotSent(slack))
                      /\ th' = [th EXCEPT ![t].pc = "rt_health_warn",
                                          ![t].notes = 0]
    /\ UNCHANGED <<files, bot, host, now, config, camera, image_count, start_time,
                   notifications>>

\* the alert after its cooldown test: self.last_health_warning = current_time,
\* then _send_message
RtAlertSend(t) ==
    /\ th[t].pc = "rt_alert_send"
    /\ \E o \in Outcomes(slack.enabled) :
          Emit(AlertKind(th[t].alert), t, 0, 0, th[t].ct,
               SendMessage([slack EXCEPT !.last_health_warning = th[t].ct],
                           AlertKind(th[t].alert), 0, NoText, FALSE, o, o))
    /\ th' = [th EXCEPT ![t].pc = "rt_health_warn", ![t].ct = 0, ![t].alert = "none"]
    /\ UNCHANGED <<files, bot, host, now, config, camera, image_count, start_time,
                   notifications>>

\* send_warning("System health check failed, continuing..."), then the call
\* of capture_image
RtHealthWarning(t) ==
    /\ th[t].pc = "rt_health_warn"
    /\ \E o \in Outcomes(notifications.warnings /\ slack.enabled) :
          Emit("Warning", t, 0, 0, now, SendWarning(slack, notifications, o))
    /\ th' = [th EXCEPT ![t].pc = "ci_entry", ![t].ret = "rt_after_capture",
                        ![t].notes = @ + Noted(notifications.warnings)]
    /\ UNCHANGED <<files, bot, host, now, config, camera, image_count, start_time,
                   notifications>>

\* variant of AfterCaptureNext in which a failed capture ends the loop
AfterCaptureNextAbort(result, interval) ==
    IF ~result THEN "rt_finally"
    ELSE IF interval < 0 THEN "rt_exc" ELSE "rt_sleeping"
\* variant of AfterCaptureNext in which a failed capture is retried at once
AfterCaptureNextRetry(result, interval) ==
    IF ~result THEN "rt_health"
    ELSE IF interval < 0 THEN "rt_exc" ELSE "rt_sleeping"
\* where the loop goes after the branches on capture_image's result:
\* time.sleep(interval) whatever the result, which raises ValueError on a
\* negative interval
AfterCaptureNext(result, interval) ==
    IF interval < 0 THEN "rt_exc" ELSE "rt_sleeping"

\* the branches on capture_image's result, then time.sleep(interval)
RtAfterCapture(t) ==
    /\ th[t].pc = "rt_after_capture"
    /\ IF th[t].result
       THEN UNCHANGED <<slack, out, sentAt>>
       ELSE \E o \in Outcomes(notifications.warnings /\ slack.enabled) :
               Emit("Warning", t, 0, 0, now, SendWarning(slack, notifications, o))
    /\ LET nx == AfterCaptureNext(th[t].result, th[t].interval)
       IN  th' = [th EXCEPT ![t].pc = nx, ![t].result = FALSE,
                            ![t].last_try = now,
                            ![t].notes = IF th[t].result THEN @
                                         ELSE @ + Noted(notifications.warnings),
                            ![t].wake = IF nx = "rt_sleeping"
                                        THEN now + th[t].interval ELSE 0]
    /\ UNCHANGED <<files, bot, host, now, config, camera, image_count, start_time,
                   notifications>>

\* the sleep is over: the next test of the loop
RtWake(t) ==
    /\ th[t].pc = "rt_sleeping"
    /\ now >= th[t].wake
    /\ th' = [th EXCEPT ![t].pc = LoopTest(th[t].end_time), ![t].wake = 0,
                        ![t].notes = 0]
    /\ UNCHANGED <<files, bot, host, now, config, camera, image_count, start_time, slack,
                   notifications, out, sentAt>>

\* Ctrl-C reaches the main thread while it waits in the sleep or in a capture
RtKeyboardInterrupt(t) ==
    /\ t = Main
    /\ \/ th[t].pc = "rt_sleeping"
       \/ th[t].pc = "ci_capture" /\ th[t].ret = "rt_after_capture"
    /\ th' = [th EXCEPT ![t].pc = "rt_kbint", ![t].wake = 0, ![t].ret = "none",
                        ![t].notes = 0]
    /\ UNCHANGED <<files, bot, host, now, config, camera, image_count, start_time, slack,
                   notifications, out, sentAt>>

\* except KeyboardInterrupt: send_warning("Timelapse interrupted by user")
RtInterrupted(t) ==
    /\ th[t].pc = "rt_kbint"
    /\ \E o \in Outcomes(notifications.warnings /\ slack.enabled) :
          Emit("Warning", t, 0, 0, now, SendWarning(slack, notifications, o))
    /\ th' = [th EXCEPT ![t].pc = "rt_finally"]
    /\ UNCHANGED <<files, bot, host, now, config, camera, image_count, start_time,
                   notifications>>

\* except Exception: send_error("Timelapse failed", e)
RtFailed(t) ==
    /\ th[t].pc = "rt_exc"
    /\ \E o \in Outcomes(notifications.errors /\ slack.enabled) :
          Emit("Error", t, 0, 0, now, SendError(slack, notifications, o))
    /\ th' = [th EXCEPT ![t].pc = "rt_finally", ![t].notes = 0]
    /\ UNCHANGED <<files, bot, host, now, config, camera, image_count, start_time,
                   notifications>>

\* finally: send_stop_notification(self.image_count, duration)
RtFinally(t) ==
    /\ th[t].pc = "rt_finally"
    /\ \E o \in Outcomes(notifications.start_stop /\ slack.enabled) :
          Emit("SessionStop", t, image_count, 0, now,
               SendStopNotification(slack, notifications, o))
    /\ th' = [th EXCEPT ![t].pc = Returned(t), ![t].stops = @ + 1,
                        ![t].reported = image_count]
    /\ UNCHANGED <<files, bot, host, now, config, camera, image_count, start_time,
                   notifications>>

(***************************************************************************)
(* PiCameraController.capture_image, called by run_timelapse and by the    *)
(* photo command                                                           *)
(***************************************************************************)
\* the calls counted for the loop's capture once capture_image has called
\* send_error; the photo command's capture is not the loop's
CiNoted(t) == IF th[t].ret = "rt_after_capture"
                THEN Noted(notifications.errors)
                ELSE th[t].notes

\* capture_image returns v to its caller
CiReturn(t, v) == [th EXCEPT ![t].pc = th[t].ret, ![t].ret = "none", ![t].result = v,
                             ![t].tmp = 0, ![t].size = 0]

\* if not self.camera: send_error("Camera not initialized"); return False
CiEntry(t) ==
    /\ th[t].pc = "ci_entry"
    /\ IF camera.handle = "None"
       THEN /\ \E o \in Outcomes(notifications.errors /\ slack.enabled) :
                  Emit("Error", t, 0, 0, now, SendError(slack, notifications, o))
            /\ th' = [CiReturn(t, FALSE) EXCEPT ![t].notes = CiNoted(t)]
       ELSE /\ th' = [th EXCEPT ![t].pc = "ci_capture",
                                ![t].notes = IF th[t].ret = "rt_after_capture"
                                             THEN 0 ELSE @]
            /\ UNCHANGED <<slack, out, sentAt>>
    /\ UNCHANGED <<files, bot, host, now, config, camera, image_count, start_time,
                   notifications>>

\* variant of CaptureFileNext in which a capture that raised is counted too
CaptureFileNextAttempts(ok) == "ci_incr_read"
\* where capture_image goes after capture_file: on to self.image_count += 1
\* when it returned, to the except branch when it raised
CaptureFileNext(ok) == IF ok THEN "ci_incr_read" ELSE "ci_fail"

\* self.camera.capture_file(str(output_path)) returns or raises; a capture
\* that returns counts for every session under way
CiCaptureFile(t) ==
    /\ th[t].pc = "ci_capture"
    /\ \E ok \in BOOLEAN :
          th' = [x \in Threads |->
                    IF x = t
                    THEN [th[x] EXCEPT !.pc = CaptureFileNext(ok),
                                       !.succ = IF ok /\ InSession(x) THEN @ + 1 ELSE @]
                    ELSE IF ok /\ InSession(x) THEN [th[x] EXCEPT !.succ = @ + 1]
                    ELSE th[x]]
    /\ UNCHANGED <<files, bot, host, now, config, camera, image_count, start_time, slack,
                   notifications, out, sentAt>>

\* self.image_count += 1: the read
CiIncrRead(t) ==
    /\ th[t].pc = "ci_incr_read"
    /\ th' = [th EXCEPT ![t].pc = "ci_incr_write", ![t].tmp = image_count]
    /\ UNCHANGED <<files, bot, host, now, config, camera, image_count, start_time, slack,
                   notifications, out, sentAt>>

\* a variant of the increment on a one-bit counter
NextCountWrapping(n) == (n + 1) % 2

\* self.image_count += 1: the value written
NextCount(n) == n + 1

\* self.image_count += 1: the write
CiIncrWrite(t) ==
    /\ th[t].pc = "ci_incr_write"
    /\ image_count' = NextCount(th[t].tmp)
    /\ th' = [th EXCEPT ![t].pc = "ci_progress", ![t].tmp = 0]
    /\ UNCHANGED <<files, bot, host, now, config, camera, start_time, slack, notifications,
                   out, sentAt>>

\* if self.start_time: send_progress_update(self.image_count, ...)
CiProgress(t) ==
    /\ th[t].pc = "ci_progress"
    /\ IF start_time = None
       THEN /\ th' = [th EXCEPT ![t].pc = "ci_photo"]
            /\ UNCHANGED <<slack, out, sentAt>>
       ELSE \E o \in Outcomes(/\ notifications.progress_updates
                              /\ notifications.progress_interval # 0
                              /\ ProgressGate(image_count, notifications.progress_interval)
                              /\ slack.enabled) :
               LET r == SendProgressUpdate(slack, notifications, image_count, o)
               IN  /\ Emit("Progress", t, image_count, 0, now, r)
                   /\ th' = [th EXCEPT ![t].pc = IF r.raised THEN "ci_fail"
                                                 ELSE "ci_photo"]
    /\ UNCHANGED <<files, bot, host, now, config, camera, image_count, start_time,
                   notifications>>

\* if self.slack.notifications.get('send_photos', True): _send_photo_notification()
CiPhoto(t) ==
    /\ th[t].pc = "ci_photo"
    /\ th' = [th EXCEPT ![t].pc = IF notifications.send_photos THEN "pn_switch_low"
                                  ELSE "ci_cleanup"]
    /\ UNCHANGED <<files, bot, host, now, config, camera, image_count, start_time, slack,
                   notifications, out, sentAt>>

\* _send_photo_notification: self.camera.switch_mode(lowres_config)
PnSwitchLow(t) ==
    /\ th[t].pc = "pn_switch_low"
    /\ \/ /\ camera' = [camera EXCEPT !.mode = "low"]
          /\ th' = [th EXCEPT ![t].pc = "pn_capture"]
       \/ /\ th' = [th EXCEPT ![t].pc = "ci_cleanup"]
          /\ UNCHANGED camera
    /\ UNCHANGED <<files, bot, host, now, config, image_count, start_time, slack,
                   notifications, out, sentAt>>

\* _send_photo_notification: self.camera.capture_file(image_stream, format='jpeg')
PnCapture(t) ==
    /\ th[t].pc = "pn_capture"
    /\ \/ \E n \in ImageSizes :
             th' = [th EXCEPT ![t].pc = "pn_switch_main", ![t].size = n]
       \/ th' = [th EXCEPT ![t].pc = "ci_cleanup"]
    /\ UNCHANGED <<files, bot, host, now, config, camera, image_count, start_time, slack,
                   notifications, out, sentAt>>

\* _send_photo_notification: self.camera.switch_mode(main_config)
PnSwitchMain(t) ==
    /\ th[t].pc = "pn_switch_main"
    /\ \/ /\ camera' = [camera EXCEPT !.mode = "main"]
          /\ th' = [th EXCEPT ![t].pc = "pn_send"]
       \/ /\ th' = [th EXCEPT ![t].pc = "ci_cleanup", ![t].size = 0]
          /\ UNCHANGED camera
    /\ UNCHANGED <<files, bot, host, now, config, image_count, start_time, slack,
                   notifications, out, sentAt>>

\* _send_photo_notification: send_photo_notification(image_data, self.image_count)
PnSend(t) ==
    /\ th[t].pc = "pn_send"
    /\ LET gates == /\ notifications.send_photos
                    /\ notifications.photo_interval # 0
                    /\ PhotoGate(slack, notifications, image_count, now)
                    /\ slack.enabled
       IN  \E o1 \in Outcomes(gates) :
           \E o2 \in Outcomes(gates /\ th[t].size > 0 /\ o1 # "ok") :
              Emit("Photo", t, image_count, th[t].size, now,
                   SendPhotoNotification(slack, notifications, th[t].size,
                                         image_count, now, o1, o2))
    /\ th' = [th EXCEPT ![t].pc = "ci_cleanup", ![t].size = 0]
    /\ UNCHANGED <<files, bot, host, now, config, camera, image_count, start_time,
                   notifications>>

\* _cleanup_old_images(), then return True
CiCleanup(t) ==
    /\ th[t].pc = "ci_cleanup"
    /\ th' = CiReturn(t, TRUE)
    /\ UNCHANGED <<files, bot, host, now, config, camera, image_count, start_time, slack,
                   notifications, out, sentAt>>

\* except Exception: send_error("Failed to capture image", e); return False
CiFail(t) ==
    /\ th[t].pc = "ci_fail"
    /\ \E o \in Outcomes(notifications.errors /\ slack.enabled) :
          Emit("Error", t, 0, 0, now, SendError(slack, notifications, o))
    /\ th' = [CiReturn(t, FALSE) EXCEPT ![t].notes = CiNoted(t)]
    /\ UNCHANGED <<files, bot, host, now, config, camera, image_count, start_time,
                   notifications>>

(***************************************************************************)
(* TimelapseBot: one inbound command, _process_mention                     *)
(***************************************************************************)
Unborn == {l \in LoopThreads : th[l].pc = "unborn"}

\* the command is done: _send_response posts the reply (a failure of the
\* post is logged), and the thread is free for the next mention
Replied(w, cmd, status, running) ==
    [th[w] EXCEPT !.pc = "w_idle", !.result = FALSE, !.cmd = NoCmd,
                  !.unacked = FALSE,
                  !.reply = [cmd |-> cmd, status |-> status,
                            running |-> running]]

\* a mention with the photo command: capture_image is called
MentionPhoto(w) ==
    /\ th[w].pc = "w_idle"
    /\ th' = [th EXCEPT ![w].pc = "ci_entry", ![w].ret = "w_photo_done",
                        ![w].reply = NoReply, ![w].unacked = TRUE]
    /\ UNCHANGED <<files, bot, host, now, config, camera, image_count, start_time, slack,
                   notifications, out, sentAt>>

\* photo: the reply after capture_image
ExecPhotoDone(w) ==
    /\ th[w].pc = "w_photo_done"
    /\ th' = [th EXCEPT ![w] = Replied(w, "photo",
                                       IF th[w].result THEN "success" ELSE "error",
                                       FALSE)]
    /\ UNCHANGED <<files, bot, host, now, config, camera, image_count, start_time, slack,
                   notifications, out, sentAt>>

\* a mention with the status command: _get_status reports a running
\* timelapse when start_time is set
MentionStatus(w) ==
    /\ th[w].pc = "w_idle"
    /\ th' = [th EXCEPT ![w] = Replied(w, "status", "info", start_time # None)]
    /\ UNCHANGED <<files, bot, host, now, config, camera, image_count, start_time, slack,
                   notifications, out, sentAt>>

\* a mention with the stop command: only the reply "not yet implemented";
\* stopReq notes the sessions whose loop is under way, before its end_time,
\* when the command is executed
MentionStop(w) ==
    /\ th[w].pc = "w_idle"
    /\ th' = [x \in Threads |->
                 IF x = w THEN Replied(w, "stop", "warning", FALSE)
                 ELSE IF InLoop(x) /\ now < th[x].end_time
                      THEN [th[x] EXCEPT !.stopReq = TRUE]
                 ELSE th[x]]
    /\ UNCHANGED <<files, bot, host, now, config, camera, image_count, start_time, slack,
                   notifications, out, sentAt>>

\* a mention with the help command
MentionHelp(w) ==
    /\ th[w].pc = "w_idle"
    /\ th' = [th EXCEPT ![w] = Replied(w, "help", "info", FALSE)]
    /\ UNCHANGED <<files, bot, host, now, config, camera, image_count, start_time, slack,
                   notifications, out, sentAt>>

\* a mention with a start command
MentionStart(w) ==
    /\ th[w].pc = "w_idle"
    /\ Unborn # {}
    /\ \E i \in StartIntervals, d \in StartDurations :
          th' = [th EXCEPT ![w].pc = "w_set_interval", ![w].reply = NoReply,
                           ![w].unacked = TRUE,
                           ![w].cmd = [type |-> "start", interval |-> i,
                                       duration |-> d]]
    /\ UNCHANGED <<files, bot, host, now, config, camera, image_count, start_time, slack,
                   notifications, out, sentAt>>

\* start: self.camera_controller.config['timelapse']['interval'] = interval
ExecStartSetInterval(w) ==
    /\ th[w].pc = "w_set_interval"
    /\ config' = [config EXCEPT !.interval = th[w].cmd.interval]
    /\ th' = [th EXCEPT ![w].pc = "w_set_duration"]
    /\ UNCHANGED <<files, bot, host, now, camera, image_count, start_time, slack,
                   notifications, out, sentAt>>

\* start: self.camera_controller.config['timelapse']['duration'] = duration
ExecStartSetDuration(w) ==
    /\ th[w].pc = "w_set_duration"
    /\ config' = [config EXCEPT !.duration = th[w].cmd.duration]
    /\ th' = [th EXCEPT ![w].pc = "w_spawn"]
    /\ UNCHANGED <<files, bot, host, now, camera, image_count, start_time, slack,
                   notifications, out, sentAt>>

\* variant of StartReplied in which the command waits for the thread it
\* started (a join) before it replies
StartJoined(w) == [th[w] EXCEPT !.pc = "w_join"]

\* start: the thread is a daemon that nobody joins; the reply follows the
\* call of timelapse_thread.start()
StartReplied(w) == Replied(w, "start", "success", FALSE)

\* start: threading.Thread(target=run_timelapse).start(), and the reply
ExecStartSpawn(w) ==
    /\ th[w].pc = "w_spawn"
    /\ \E l \in Unborn :
          /\ \A k \in Unborn : l[2] <= k[2]
          /\ th' = [th EXCEPT ![l].pc = "rt_enter",
                              ![w] = StartReplied(w)]
    /\ UNCHANGED <<files, bot, host, now, config, camera, image_count, start_time, slack,
                   notifications, out, sentAt>>

(***************************************************************************)
(* Spec: the controller and its threads                                    *)
(***************************************************************************)
Next ==
    \/ Tick
    \/ \E t \in {Main} : RunCreateOutputDirectory(t)
    \/ \E t \in {Main} : RunSetupCamera(t)
    \/ \E t \in {Main} : RunCreateVideo(t)
    \/ \E t \in {Main} : RunFailed(t)
    \/ \E t \in {Main} : RunCleanup(t)
    \/ \E t \in Runners : RtEnter(t)
    \/ \E t \in Runners : RtSendStart(t)
    \/ \E t \in Runners : RtReadConfig(t)
    \/ \E t \in Runners : RtCheckSystemHealth(t)
    \/ \E t \in Runners : RtAlertSend(t)
    \/ \E t \in Runners : RtHealthWarning(t)
    \/ \E t \in Runners : RtAfterCapture(t)
    \/ \E t \in Runners : RtWake(t)
    \/ \E t \in Runners : RtKeyboardInterrupt(t)
    \/ \E t \in Runners : RtInterrupted(t)
    \/ \E t \in Runners : RtFailed(t)
    \/ \E t \in Runners : RtFinally(t)
    \/ \E t \in Threads : CiEntry(t)
    \/ \E t \in Threads : CiCaptureFile(t)
    \/ \E t \in Threads : CiIncrRead(t)
    \/ \E t \in Threads : CiIncrWrite(t)
    \/ \E t \in Threads : CiProgress(t)
    \/ \E t \in Threads : CiPhoto(t)
    \/ \E t \in Threads : PnSwitchLow(t)
    \/ \E t \in Threads : PnCapture(t)
    \/ \E t \in Threads : PnSwitchMain(t)
    \/ \E t \in Threads : PnSend(t)
    \/ \E t \in Threads : CiCleanup(t)
    \/ \E t \in Threads : CiFail(t)
    \/ \E w \in Workers : MentionPhoto(w)
    \/ \E w \in Workers : ExecPhotoDone(w)
    \/ \E w \in Workers : MentionStatus(w)
    \/ \E w \in Workers : MentionStop(w)
    \/ \E w \in Workers : MentionHelp(w)
    \/ \E w \in Workers : MentionStart(w)
    \/ \E w \in Workers : ExecStartSetInterval(w)
    \/ \E w \in Workers : ExecStartSetDuration(w)
    \/ \E w \in Workers : ExecStartSpawn(w)

Spec == Init /\ [][Next]_vars

(***************************************************************************)
(* SpecNotifier and SpecCooldown: one caller drives the SlackNotifier       *)
(* through its public methods, as capture_image and run_timelapse do, over *)
(* every outcome of the sink. SpecNotifier runs through the image counts   *)
(* at one instant, SpecCooldown through a stretch of time at one count.    *)
(***************************************************************************)
\* the clock of SpecCooldown advances in steps of this many seconds
TickSteps == {100}

NotificationChoicesN ==
    {[AllOn EXCEPT !.progress_interval = n] : n \in {1, 2, 5}}

InitN ==
    /\ files = {}
    /\ bot = Bot0
    /\ host = "notifier"
    /\ now = BootTime
    /\ config = [enabled |-> TRUE, interval |-> 1, duration |-> 1]
    /\ camera = NoCamera
    /\ image_count = 0
    /\ start_time = None
    /\ slack \in SlackInits
    /\ notifications \in NotificationChoicesN
    /\ th = [t \in Threads |-> Thread0("absent")]
    /\ out = NoOut
    /\ sentAt = [k \in GatedKinds |-> 0]

TickN ==
    /\ \E d \in TickSteps :
          /\ now + d <= BootTime + HorizonN
          /\ now' = now + d
    /\ UNCHANGED <<files, bot, host, config, camera, image_count, start_time, slack,
                   notifications, th, out, sentAt>>

\* self.image_count += 1 of capture_image
NCount ==
    /\ image_count < MaxCount
    /\ image_count' = image_count + 1
    /\ UNCHANGED <<files, bot, host, now, config, camera, start_time, slack, notifications,
                   th, out, sentAt>>

NStart ==
    /\ \E o \in SinkOutcomes :
          LET r == SendStartNotification(slack, notifications, o)
          IN  /\ r.slack.ts_seq <= MaxTs
              /\ Emit("SessionStart", Caller, 0, 0, now, r)
    /\ UNCHANGED <<files, bot, host, now, config, camera, image_count, start_time,
                   notifications, th>>

NStop ==
    /\ \E o \in SinkOutcomes :
          Emit("SessionStop", Caller, image_count, 0, now,
               SendStopNotification(slack, notifications, o))
    /\ UNCHANGED <<files, bot, host, now, config, camera, image_count, start_time,
                   notifications, th>>

NError ==
    /\ \E o \in SinkOutcomes :
          Emit("Error", Caller, 0, 0, now, SendError(slack, notifications, o))
    /\ UNCHANGED <<files, bot, host, now, config, camera, image_count, start_time,
                   notifications, th>>

NWarning ==
    /\ \E o \in SinkOutcomes :
          Emit("Warning", Caller, 0, 0, now, SendWarning(slack, notifications, o))
    /\ UNCHANGED <<files, bot, host, now, config, camera, image_count, start_time,
                   notifications, th>>

\* send_progress_update(self.image_count, elapsed, remaining)
NProgress ==
    /\ image_count >= 1
    /\ \E o \in SinkOutcomes :
          Emit("Progress", Caller, image_count, 0, now,
               SendProgressUpdate(slack, notifications, image_count, o))
    /\ UNCHANGED <<files, bot, host, now, config, camera, image_count, start_time,
                   notifications, th>>

\* send_photo_notification(image_data, self.image_count)
NPhoto ==
    /\ image_count >= 1
    /\ \E n \in ImageSizesN, o1 \in SinkOutcomes, o2 \in SinkOutcomes :
          \* the outcome of the fallback matters only after a failed upload
          /\ o1 = "ok" => o2 = "ok"
          /\ Emit("Photo", Caller, image_count, n, now,
                  SendPhotoNotification(slack, notifications, n, image_count, now,
                                        o1, o2))
    /\ UNCHANGED <<files, bot, host, now, config, camera, image_count, start_time,
                   notifications, th>>

NTemperature ==
    /\ \E o \in SinkOutcomes :
          Emit("TemperatureAlert", Caller, 0, 0, now,
               SendTemperatureAlert(slack, notifications, now, o))
    /\ UNCHANGED <<files, bot, host, now, config, camera, image_count, start_time,
                   notifications, th>>

NDisk ==
    /\ \E o \in SinkOutcomes :
          Emit("DiskAlert", Caller, 0, 0, now,
               SendDiskSpaceAlert(slack, notifications, now, o))
    /\ UNCHANGED <<files, bot, host, now, config, camera, image_count, start_time,
                   notifications, th>>

NextN ==
    \/ NCount
    \/ NStart
    \/ NStop
    \/ NError
    \/ NWarning
    \/ NProgress
    \/ NPhoto

SpecNotifier == InitN /\ [][NextN]_vars

\* the notifier after the first capture of a session
InitC ==
    /\ files = {}
    /\ bot = Bot0
    /\ host = "notifier"
    /\ now = BootTime
    /\ config = [enabled |-> TRUE, interval |-> 1, duration |-> 1]
    /\ camera = NoCamera
    /\ image_count = 1
    /\ start_time = None
    /\ slack \in SlackInits
    /\ notifications = AllOn
    /\ th = [t \in Threads |-> Thread0("absent")]
    /\ out = NoOut
    /\ sentAt = [k \in GatedKinds |-> 0]

NextC ==
    \/ TickN
    \/ NPhoto
    \/ NTemperature
    \/ NDisk

SpecCooldown == InitC /\ [][NextC]_vars

\* self.notifications = config.get('notifications', {}): the settings with
\* at most one flag off and those with at most one flag on (each sender reads
\* its own flag only)
NotificationChoicesF ==
    {[AllOn EXCEPT !.errors = f[1], !.warnings = f[2], !.start_stop = f[3],
                   !.progress_updates = f[4], !.send_photos = f[5],
                   !.temperature_alerts = f[6], !.disk_space_alerts = f[7],
                   !.progress_interval = 1] :
        f \in {g \in [1..7 -> BOOLEAN] :
                  \/ Cardinality({i \in 1..7 : g[i]}) <= 1
                  \/ Cardinality({i \in 1..7 : ~g[i]}) <= 1}}

\* the notifier after the first capture, under every setting of the flags
InitF ==
    /\ files = {}
    /\ bot = Bot0
    /\ host = "notifier"
    /\ now = BootTime
    /\ config = [enabled |-> TRUE, interval |-> 1, duration |-> 1]
    /\ camera = NoCamera
    /\ image_count = 1
    /\ start_time = None
    /\ slack \in SlackInits
    /\ notifications \in NotificationChoicesF
    /\ th = [t \in Threads |-> Thread0("absent")]
    /\ out = NoOut
    /\ sentAt = [k \in GatedKinds |-> 0]

NextF ==
    \/ NStart
    \/ NStop
    \/ NError
    \/ NWarning
    \/ NProgress
    \/ NPhoto
    \/ NTemperature
    \/ NDisk

SpecFlags == InitF /\ [][NextF]_vars

(***************************************************************************)
(* TimelapseBot._parse_command: the five patterns of command_patterns,     *)
(* tried in their order with re.search on the lowered, stripped text       *)
(***************************************************************************)
IsSpace(c) == c \in {" ", "\t"}
IsDigit(c) == \E i \in 1..10 : DigitChars[i] = c

\* str.lower(), on the letters the commands are written with
LowerChar(c) ==
    CASE c = "B" -> "b" [] c = "O" -> "o" [] c = "T" -> "t"
      [] c = "S" -> "s" [] c = "M" -> "m" [] c = "H" -> "h"
      [] OTHER -> c
Lower(text) == [i \in 1..Len(text) |-> LowerChar(text[i])]

RECURSIVE Strip(_)
\* str.strip()
Strip(text) ==
    IF text = <<>> THEN text
    ELSE IF IsSpace(text[1]) THEN Strip(Tail(text))
    ELSE IF IsSpace(text[Len(text)]) THEN Strip(SubSeq(text, 1, Len(text) - 1))
    ELSE text

RECURSIVE SpacesEnd(_, _)
\* the position after the longest run of whitespace that starts at i
SpacesEnd(text, i) ==
    IF i <= Len(text) /\ IsSpace(text[i]) THEN SpacesEnd(text, i + 1) ELSE i

RECURSIVE DigitsEnd(_, _)
\* the position after the longest run of digits that starts at i
DigitsEnd(text, i) ==
    IF i <= Len(text) /\ IsDigit(text[i]) THEN DigitsEnd(text, i + 1) ELSE i

\* a position of 0 stands for "no match"
\* a literal at position i: the position after it
Lit(text, i, lit) ==
    IF i # 0 /\ i + Len(lit) - 1 <= Len(text)
       /\ SubSeq(text, i, i + Len(lit) - 1) = lit
    THEN i + Len(lit) ELSE 0

\* \s+ at position i: the position after it
Spaces1(text, i) ==
    IF i = 0 THEN 0
    ELSE IF SpacesEnd(text, i) = i THEN 0 ELSE SpacesEnd(text, i)

AtBot == <<"@", "b", "o", "t">>
PhotoWord == <<"p", "h", "o", "t", "o">>
StatusWord == <<"s", "t", "a", "t", "u", "s">>
StartWord == <<"s", "t", "a", "r", "t">>
StopWord == <<"s", "t", "o", "p">>
HelpWord == <<"h", "e", "l", "p">>

\* r'@bot\s+<word>' matched at position p: the position after the match
MatchWord(text, p, word) == Lit(text, Spaces1(text, Lit(text, p, AtBot)), word)

\* re.search(r'@bot\s+<word>', text)
SearchWord(text, word) == \E p \in 1..Len(text) : MatchWord(text, p, word) # 0

\* s? after the digits of the interval, which end before position b
IntervalUnitEnd(text, b) ==
    IF b <= Len(text) /\ text[b] = "s" THEN b + 1 ELSE b

\* r'@bot\s+start\s+(\d+)s?\s+(\d+)(s|m|h)?' matched at position p
StartMatch(text, p) ==
    LET a == Spaces1(text, MatchWord(text, p, StartWord))
        b == IF a = 0 THEN 0 ELSE DigitsEnd(text, a)
        g1ok == a # 0 /\ b > a
        d == IF g1ok THEN Spaces1(text, IntervalUnitEnd(text, b)) ELSE 0
        e == IF d = 0 THEN 0 ELSE DigitsEnd(text, d)
        g2ok == d # 0 /\ e > d
    IN  [ok |-> g2ok,
         g1 |-> IF g2ok THEN SubSeq(text, a, b - 1) ELSE <<>>,
         g2 |-> IF g2ok THEN SubSeq(text, d, e - 1) ELSE <<>>,
         g3 |-> IF g2ok /\ e <= Len(text) /\ text[e] \in {"s", "m", "h"}
                THEN text[e] ELSE "s"]

\* re.search of the start pattern: the leftmost match
SearchStart(text) ==
    LET ps == {p \in 1..Len(text) : StartMatch(text, p).ok}
    IN  IF ps = {} THEN [ok |-> FALSE, g1 |-> <<>>, g2 |-> <<>>, g3 |-> "s"]
        ELSE StartMatch(text, CHOOSE p \in ps : \A q \in ps : p <= q)

RECURSIVE IntOf(_)
\* int(str) of a text of digits
IntOf(d) ==
    IF d = <<>> THEN 0
    ELSE IntOf(SubSeq(d, 1, Len(d) - 1)) * 10
         + ((CHOOSE i \in 1..10 : DigitChars[i] = d[Len(d)]) - 1)

\* variant of UnitSeconds that knows minutes only
UnitSecondsMinutes(unit) == IF unit = "m" THEN 60 ELSE 1

\* if duration_unit == "m": duration *= 60; elif "h": duration *= 3600
UnitSeconds(unit) == IF unit = "m" THEN 60 ELSE IF unit = "h" THEN 3600 ELSE 1

Cmd(type) == [type |-> type, interval |-> 0, duration |-> 0]

\* variant of ParseCommand that takes any other mention of the bot for help
ParseCommandLenient(raw) ==
    LET text == Strip(Lower(raw))
        m == SearchStart(text)
    IN  IF SearchWord(text, PhotoWord) THEN Cmd("photo")
        ELSE IF SearchWord(text, StatusWord) THEN Cmd("status")
        ELSE IF m.ok THEN [type |-> "start", interval |-> IntOf(m.g1),
                           duration |-> IntOf(m.g2) * UnitSeconds(m.g3)]
        ELSE IF SearchWord(text, StopWord) THEN Cmd("stop")
        ELSE IF \E p \in 1..Len(text) : Lit(text, p, AtBot) # 0 THEN Cmd("help")
        ELSE NoCmd

\* _parse_command; None is NoCmd
ParseCommand(raw) ==
    LET text == Strip(Lower(raw))
        m == SearchStart(text)
    IN  IF SearchWord(text, PhotoWord) THEN Cmd("photo")
        ELSE IF SearchWord(text, StatusWord) THEN Cmd("status")
        ELSE IF m.ok THEN [type |-> "start", interval |-> IntOf(m.g1),
                           duration |-> IntOf(m.g2) * UnitSeconds(m.g3)]
        ELSE IF SearchWord(text, StopWord) THEN Cmd("stop")
        ELSE IF SearchWord(text, HelpWord) THEN Cmd("help")
        ELSE NoCmd

(***************************************************************************)
(* SpecParse: one inbound text goes through _process_mention               *)
(***************************************************************************)
\* the numbers written in the start commands
StartNumbers == {0, 1, 5, 10, 30, 60, 100}
\* the unit written after a number: none, s, m or h
Units == {<<>>, <<"s">>, <<"m">>, <<"h">>}
\* how a text is typed: as is, in upper case, or with wider whitespace
Styles == {"plain", "upper", "wide"}

Sp == <<" ">>

\* the texts that are none of the five commands
OtherTexts ==
    <<  <<"n", "o", "t", " ", "a", " ", "c", "o", "m", "m", "a", "n", "d">>,
        AtBot \o Sp \o <<"i", "n", "v", "a", "l", "i", "d">>,
        AtBot,
        AtBot \o PhotoWord,
        <<"b", "o", "t">> \o Sp \o PhotoWord,
        AtBot \o Sp \o StartWord,
        AtBot \o Sp \o StartWord \o Sp \o <<"n", "o", "w">>,
        AtBot \o Sp \o StartWord \o Sp \o <<"5">>,
        <<"h", "e", "l", "l", "o">>,
        <<>> >>

UpperChar(c) ==
    CASE c = "b" -> "B" [] c = "o" -> "O" [] c = "t" -> "T"
      [] c = "s" -> "S" [] c = "m" -> "M" [] c = "h" -> "H"
      [] OTHER -> c

RECURSIVE Widen(_)
\* every blank doubled
Widen(text) ==
    IF text = <<>> THEN text
    ELSE IF text[1] = " " THEN <<" ", " ">> \o Widen(Tail(text))
    ELSE <<text[1]>> \o Widen(Tail(text))

Styled(text, style) ==
    CASE style = "upper" -> [i \in 1..Len(text) |-> UpperChar(text[i])]
      [] style = "wide" -> Sp \o Widen(text) \o Sp
      [] OTHER -> text

WordOf(form) ==
    CASE form = "photo" -> PhotoWord [] form = "status" -> StatusWord
      [] form = "stop" -> StopWord [] OTHER -> HelpWord

\* what a user meant to type
ParseInputs ==
    {[form |-> "start", interval |-> i, iunit |-> a, duration |-> d,
      dunit |-> b, style |-> st, n |-> 0] :
        i \in StartNumbers, a \in Units, d \in StartNumbers, b \in Units,
        st \in Styles}
    \cup
    {[form |-> f, interval |-> 0, iunit |-> <<>>, duration |-> 0,
      dunit |-> <<>>, style |-> st, n |-> 0] :
        f \in {"photo", "status", "stop", "help"}, st \in Styles}
    \cup
    {[form |-> "other", interval |-> 0, iunit |-> <<>>, duration |-> 0,
      dunit |-> <<>>, style |-> st, n |-> k] :
        k \in 1..Len(OtherTexts), st \in Styles}

\* the text typed
TextOf(in) ==
    Styled(CASE in.form = "start" ->
                  AtBot \o Sp \o StartWord \o Sp \o Digits(in.interval) \o in.iunit
                  \o Sp \o Digits(in.duration) \o in.dunit
             [] in.form = "other" -> OtherTexts[in.n]
             [] OTHER -> AtBot \o Sp \o WordOf(in.form),
           in.style)

InitP ==
    /\ files = {}
    /\ \E in \in ParseInputs :
          bot = [Bot0 EXCEPT !.pc = "received", !.text = TextOf(in),
                             !.input = in]
    /\ host = "bot"
    /\ now = BootTime
    /\ config = [enabled |-> TRUE, interval |-> 1, duration |-> 1]
    /\ camera = NoCamera
    /\ image_count = 0
    /\ start_time = None
    /\ slack \in SlackInits
    /\ notifications = AllOn
    /\ th = [t \in Threads |-> Thread0("absent")]
    /\ out = NoOut
    /\ sentAt = [k \in GatedKinds |-> 0]

\* _process_mention: command = self._parse_command(text); if command: ...
ProcessMention ==
    /\ bot.pc = "received"
    /\ bot' = [bot EXCEPT !.parsed = ParseCommand(bot.text),
                          !.pc = IF ParseCommand(bot.text) # NoCmd THEN "execute"
                                 ELSE "ignored"]
    /\ UNCHANGED <<files, host, now, config, camera, image_count, start_time, slack,
                   notifications, th, out, sentAt>>

\* _execute_command up to the spawn of the thread or the call of
\* capture_image; start writes the interval and the duration into the config
ExecuteCommand ==
    /\ bot.pc = "execute"
    /\ bot' = [bot EXCEPT !.pc = "executed"]
    /\ config' = IF bot.parsed.type = "start"
                 THEN [config EXCEPT !.interval = bot.parsed.interval,
                                     !.duration = bot.parsed.duration]
                 ELSE config
    /\ UNCHANGED <<files, host, now, camera, image_count, start_time, slack,
                   notifications, th, out, sentAt>>

NextP ==
    \/ ProcessMention
    \/ ExecuteCommand

SpecParse == InitP /\ [][NextP]_vars

(***************************************************************************)
(* SpecPoll: TimelapseBot._poll_for_commands, with users posting in the    *)
(* channel; a message has its position in the channel as its timestamp     *)
(***************************************************************************)
PollOutcomes == {"ok", "not_ok", "exception"}

RECURSIVE NewestFirst(_, _)
\* conversations_history(channel, limit=10, oldest=last_timestamp): the
\* messages after oldest, the newest first (fewer than the limit here)
NewestFirst(n, oldest) ==
    IF n <= oldest THEN <<>> ELSE <<n>> \o NewestFirst(n - 1, oldest)

InitPoll ==
    /\ files = {}
    /\ bot = [Bot0 EXCEPT !.pc = "poll_fetch"]
    /\ host = "bot"
    /\ now = BootTime
    /\ config = [enabled |-> TRUE, interval |-> 1, duration |-> 1]
    /\ camera = NoCamera
    /\ image_count = 0
    /\ start_time = None
    /\ slack \in SlackInits
    /\ notifications = AllOn
    /\ th = [t \in Threads |-> Thread0("absent")]
    /\ out = NoOut
    /\ sentAt = [k \in GatedKinds |-> 0]

\* self.web_client.auth_test()["user_id"], the author of what the bot posts
BotUser == "bot"

\* a variant of _is_bot_mention without the test of the author
IsBotMentionAnyAuthor(mention, user) == mention

\* "@bot" in text.lower() and message.get("user") != auth_test()["user_id"]
IsBotMention(mention, user) == mention /\ user # BotUser

\* _send_response: nothing reaches the channel (chat_postMessage failed), or
\* a reply without "@bot" in it, or the help text with its "@bot" examples
ReplyKinds == {"none", "plain", "help"}

\* a user posts a message, with or without a mention of the bot
PostMessage ==
    /\ Len(bot.history) < MaxMessages
    /\ \E mention \in BOOLEAN :
          bot' = [bot EXCEPT !.history = Append(@, mention),
                             !.authors = Append(@, "user"),
                             !.runs = Append(@, 0)]
    /\ UNCHANGED <<files, host, now, config, camera, image_count, start_time, slack,
                   notifications, th, out, sentAt>>

\* response = self.web_client.conversations_history(...); if response["ok"]
PollFetch ==
    /\ bot.pc = "poll_fetch"
    /\ \E o \in PollOutcomes :
          bot' = IF o = "ok"
                 THEN [bot EXCEPT !.pc = "poll_message", !.idx = 1,
                                  !.messages = NewestFirst(Len(bot.history),
                                                           bot.last_timestamp)]
                 \* not ok: time.sleep(5); raised: the except block, time.sleep(10)
                 ELSE bot
    /\ UNCHANGED <<files, host, now, config, camera, image_count, start_time, slack,
                   notifications, th, out, sentAt>>

\* for message in messages: if self._is_bot_mention(message):
\* self._process_mention(message); _is_bot_mention calls auth_test, which
\* can raise, and the except block of the loop then starts a new cycle
PollMessage ==
    /\ bot.pc = "poll_message"
    /\ bot.idx <= Len(bot.messages)
    /\ \E o \in {"ok", "exception"} :
          LET m == bot.messages[bot.idx]
          IN  IF bot.history[m] /\ o = "exception"
              THEN bot' = [bot EXCEPT !.pc = "poll_fetch", !.messages = <<>>,
                                      !.idx = 0]
              ELSE LET hit == IsBotMention(bot.history[m], bot.authors[m])
                   IN  /\ hit => bot.runs[m] < MaxRuns
                       /\ \E reply \in (IF hit THEN ReplyKinds ELSE {"none"}) :
                             IF reply = "none"
                             THEN bot' = [bot EXCEPT !.idx = @ + 1,
                                                     !.runs[m] = IF hit THEN @ + 1
                                                                 ELSE @]
                             ELSE /\ Len(bot.history) < MaxMessages
                                  /\ bot' = [bot EXCEPT
                                                !.idx = @ + 1,
                                                !.runs = Append([@ EXCEPT ![m] = @ + 1],
                                                                0),
                                                !.history = Append(@, reply = "help"),
                                                !.authors = Append(@, BotUser)]
    /\ UNCHANGED <<files, host, now, config, camera, image_count, start_time, slack,
                   notifications, th, out, sentAt>>

\* if messages: last_timestamp = messages[0]["ts"]; time.sleep(5)
PollAdvance ==
    /\ bot.pc = "poll_message"
    /\ bot.idx > Len(bot.messages)
    /\ bot' = [bot EXCEPT !.pc = "poll_fetch", !.messages = <<>>, !.idx = 0,
                          !.last_timestamp = IF bot.messages # <<>>
                                             THEN bot.messages[1] ELSE @]
    /\ UNCHANGED <<files, host, now, config, camera, image_count, start_time, slack,
                   notifications, th, out, sentAt>>

NextPoll ==
    \/ PostMessage
    \/ PollFetch
    \/ PollMessage
    \/ PollAdvance

SpecPoll == InitPoll /\ [][NextPoll]_vars

(***************************************************************************)
(* SpecCleanup: PiCameraController._cleanup_old_images on an output        *)
(* directory; an image is written as its modification time, and the times  *)
(* of the images differ                                                    *)
(***************************************************************************)
RECURSIVE SortByMtime(_)
\* images.sort(key=lambda x: x.stat().st_mtime): the oldest first
SortByMtime(fs) ==
    IF fs = {} THEN <<>>
    ELSE LET oldest == CHOOSE f \in fs : \A g \in fs : f <= g
         IN  <<oldest>> \o SortByMtime(fs \ {oldest})

\* images[:stop] of Python: a negative stop counts from the end, and a stop
\* of -0 is 0
SliceTo(images, stop) ==
    SubSeq(images, 1,
           IF stop < 0 THEN (IF Len(images) + stop < 0 THEN 0
                             ELSE Len(images) + stop)
           ELSE (IF stop > Len(images) THEN Len(images) ELSE stop))

\* the images that _cleanup_old_images unlinks
ImagesToRemove(fs, cleanup_old, max_images) ==
    IF ~cleanup_old THEN {}
    ELSE IF Cardinality(fs) > max_images
         THEN LET cut == SliceTo(SortByMtime(fs), 0 - max_images)
              IN  {cut[i] : i \in 1..Len(cut)}
         ELSE {}

InitCleanup ==
    /\ files \in SUBSET (1..MaxFiles)
    /\ bot = Bot0
    /\ host = "driver"
    /\ now = BootTime
    /\ config \in [cleanup_old : BOOLEAN, max_images : 0..MaxFiles]
    /\ camera = NoCamera
    /\ image_count = 0
    /\ start_time = None
    /\ slack \in SlackInits
    /\ notifications = AllOn
    /\ th = [t \in Threads |-> IF t = Main THEN Thread0("ci_cleanup")
                                ELSE Thread0("absent")]
    /\ out = NoOut
    /\ sentAt = [k \in GatedKinds |-> 0]

\* self._cleanup_old_images()
CleanupOldImages ==
    /\ th[Main].pc = "ci_cleanup"
    /\ files' = files \ ImagesToRemove(files, config.cleanup_old, config.max_images)
    /\ th' = [th EXCEPT ![Main].pc = "cleaned"]
    /\ UNCHANGED <<bot, host, now, config, camera, image_count, start_time,
                   slack, notifications, out, sentAt>>

NextCleanup == CleanupOldImages

SpecCleanup == InitCleanup /\ [][NextCleanup]_vars

(***************************************************************************)
(* Properties                                                              *)
(***************************************************************************)
\* the number a text of digits and thousands separators stands for
DigitValue(c) == CHOOSE i \in 0..9 : DigitChars[i + 1] = c

RECURSIVE ParseDigits(_)
ParseDigits(d) ==
    IF d = <<>> THEN 0
    ELSE ParseDigits(SubSeq(d, 1, Len(d) - 1)) * 10 + DigitValue(d[Len(d)])

IsComma(c) == c = ","
NotComma(c) == ~IsComma(c)
ParseThousands(text) == ParseDigits(SelectSeq(text, NotComma))

\* the threads whose run_timelapse is over, one way or the other
Over(t) == th[t].pc \in {"done", "crashed", "run_video", "run_failed",
                         "run_cleanup", "exit"}

\* C1: at every instant at most one capture loop is in its session, whatever
\* start, stop, photo and status commands were issued; a start command
\* issued while a loop is active never leads to a second active loop.
AtMostOneLoopActive == Cardinality({t \in Runners : InSession(t)}) <= 1

\* C2: once a stop command was issued while a loop was under way before its
\* end_time, the loop begins no further iteration, and it leaves its sleep
\* for the exit before end_time is reached.
StopEndsSession ==
    [][\A l \in LoopThreads :
          th[l].stopReq =>
             /\ ~(th[l].pc # "rt_health" /\ th'[l].pc = "rt_health")
             /\ (th[l].pc = "rt_sleeping" /\ th'[l].pc # "rt_sleeping")
                   => now < th[l].end_time]_vars

\* C3: while a session is under way, a start command changes nothing: the
\* steps of the other threads leave the configuration, the start time and the
\* conversation thread handle as they are, and spawn no further loop (so no
\* further SessionStart is emitted).
StartWhileRunningChangesNothing ==
    [][\A l \in LoopThreads :
          (InSession(l) /\ th'[l] = th[l]) =>
             /\ config' = config
             /\ start_time' = start_time
             /\ slack'.thread_ts = slack.thread_ts
             /\ \A k \in LoopThreads :
                   th[k].pc = "unborn" => th'[k].pc = "unborn"]_vars

StartedSessionStopsOnce ==
    \A t \in Runners : (th[t].started /\ Over(t)) => th[t].stops = 1

\* C7: whatever the kind of the event and whatever the failure of the sink
\* (ok=false, API error, other exception, no usable client), a notifier call
\* returns a boolean and does not raise.
EmitNeverRaises == ~out.raised

\* C8: when the upload of a Photo fails, exactly one text message is posted
\* after it, naming the file and the byte size of the image; the call returns
\* true if that post succeeds and false if it fails, and never raises.
PhotoFallbackDelivers ==
    (/\ out.kind = "Photo"
     /\ out.posts # <<>>
     /\ out.posts[1].api = "postImage"
     /\ out.posts[1].outcome # "ok")
    => /\ ~out.raised
       /\ Len(out.posts) = 2
       /\ out.posts[2].api = "postText"
       /\ out.posts[2].file = PhotoFilename(out.count)
       /\ ParseThousands(out.posts[2].sizeText) = out.size
       /\ out.ret <=> (out.posts[2].outcome = "ok")

\* C8, its case: an upload refused by the API, then a fallback text that was
\* delivered for an image of 1,234,567 bytes.
PhotoFallbackDelivered ==
    /\ out.kind = "Photo"
    /\ Len(out.posts) = 2
    /\ out.posts[1].outcome = "api_error"
    /\ out.posts[2].outcome = "ok"
    /\ out.size = 1234567
    /\ out.ret

\* C9: with progress updates enabled and progress_interval = N >= 1, a
\* Progress emission for count c is handed to delivery if and only if
\* c mod N = 0, and is otherwise suppressed, returning false without a post.
ProgressEveryN ==
    (/\ out.kind = "Progress"
     /\ notifications.progress_updates
     /\ notifications.progress_interval >= 1)
    => /\ out.delivery <=> (out.count % notifications.progress_interval = 0)
       /\ (out.count % notifications.progress_interval # 0)
             => (~out.ret /\ ~out.raised /\ out.posts = <<>>)

\* C9, its case: N = 5 and the count has grown to 10, which is handed to
\* delivery.
ProgressAtTen ==
    /\ out.kind = "Progress"
    /\ notifications.progress_interval = 5
    /\ out.count = 10
    /\ out.delivery

\* C10: with the notifier enabled, the sink working now, and every health
\* alert that passed the gate so far delivered, a TemperatureAlert emission
\* is delivered if and only if at least 300 seconds have passed since the
\* last delivered TemperatureAlert.
TemperatureAlertCooldown ==
    [][(/\ out'.kind = "TemperatureAlert"
        /\ now' = now
        /\ slack.enabled
        /\ notifications.temperature_alerts
        /\ slack.last_health_warning \in {sentAt["TemperatureAlert"],
                                          sentAt["DiskAlert"]}
        /\ out'.posts # <<>> => out'.posts[1].outcome = "ok")
       => (out'.ret <=> ~(now - sentAt["TemperatureAlert"] < 300))]_vars

\* C11: two threads emitting the same cooldown-gated kind never both pass
\* the cooldown gate within one cooldown window: no two threads are past the
\* gate of the same kind, about to send, with gate times less than the
\* cooldown apart.
CooldownGateAtomic ==
    \A t1 \in Threads, t2 \in Threads :
       (/\ t1 # t2
        /\ th[t1].pc = "rt_alert_send"
        /\ th[t2].pc = "rt_alert_send"
        /\ th[t1].alert = th[t2].alert)
       => \/ th[t1].ct - th[t2].ct >= health_warning_cooldown
          \/ th[t2].ct - th[t1].ct >= health_warning_cooldown

\* C12: the cooldown is tracked per kind: a DiskAlert emitted right after a
\* delivered TemperatureAlert, with its flag on and no DiskAlert delivered
\* within the cooldown, passes its gate and is handed to delivery; and the
\* same with the two kinds exchanged.
CooldownPerKind ==
    [][/\ (/\ out.kind = "TemperatureAlert"
           /\ out.ret
           /\ out'.kind = "DiskAlert"
           /\ now' = now
           /\ notifications.disk_space_alerts
           /\ now - sentAt["DiskAlert"] >= health_warning_cooldown)
          => out'.delivery
       /\ (/\ out.kind = "DiskAlert"
           /\ out.ret
           /\ out'.kind = "TemperatureAlert"
           /\ now' = now
           /\ notifications.temperature_alerts
           /\ now - sentAt["TemperatureAlert"] >= health_warning_cooldown)
          => out'.delivery]_vars

\* C13: a Progress, Photo or SessionStop message of a session carries a
\* conversation thread handle only if the SessionStart of that same session
\* was delivered, and then it is the handle that SessionStart produced; a
\* session whose SessionStart failed posts without a handle.
HandleOnlyFromOwnStart ==
    (/\ out.kind \in {"Progress", "Photo", "SessionStop"}
     /\ out.by \in Runners)
    => \A i \in 1..Len(out.posts) :
          out.posts[i].thread_ts # None
             => out.posts[i].thread_ts = th[out.by].startTs

\* C14: once a session has emitted its SessionStop and no session is under
\* way, the conversation thread handle is empty, so that nothing emitted
\* afterwards is posted into the finished session's conversation.
HandleClearedAfterStop ==
    (/\ \E t \in Runners : th[t].stops > 0
     /\ \A t \in Runners : ~InSession(t))
    => slack.thread_ts = None

\* C15: a status query reports the timelapse as running if and only if a
\* capture loop is in its session at that moment; after every completed
\* session it reports not running (sessions ended by an exception that
\* escaped run_timelapse are left aside).
StatusTellsRunning ==
    [][\A w \in Workers :
          (/\ th[w].pc = "w_idle"
           /\ th'[w] # th[w]
           /\ th'[w].reply.cmd = "status"
           /\ \A l \in LoopThreads : th[l].pc # "crashed")
          => (th'[w].reply.running <=> \E l \in LoopThreads : InSession(l))]_vars

\* C16: a failed health check or a failed capture never ends the capture
\* loop: after a health failure capture_image is still called in the same
\* iteration, and the loop is left only at its test once now >= end_time, by
\* Ctrl-C, or by the exception of a sleep with a negative interval.
FailuresKeepLoop ==
    [][\A t \in Runners :
          /\ (th[t].pc = "rt_health_warn" /\ th'[t].pc # "rt_health_warn")
                => (th'[t].pc = "ci_entry" /\ th'[t].ret = "rt_after_capture")
          /\ InLoop(t)
                => \/ InLoop(t)'
                   \/ th'[t].pc = "rt_finally" /\ now >= th[t].end_time
                   \/ th'[t].pc = "rt_kbint"
                   \/ /\ th'[t].pc = "rt_exc"
                      /\ th[t].pc = "rt_after_capture"
                      /\ th[t].interval < 0]_vars

\* C16, its case: the driver's loop begins its second iteration after a
\* first one whose capture failed (no image yet, the Warning of the failed
\* capture is the last emission).
SecondIterationAfterFailure ==
    /\ th[Main].pc = "rt_health"
    /\ now > start_time
    /\ image_count = 0
    /\ camera.handle = "Ready"
    /\ out.kind = "Warning"

\* C17: between two consecutive capture attempts of one loop the configured
\* interval is slept, whether the earlier attempt succeeded or failed: when
\* the loop calls capture_image again, at least the interval has passed
\* since the earlier call returned.
SleepBetweenAttempts ==
    \A t \in Runners :
       (/\ th[t].pc = "ci_entry"
        /\ th[t].ret = "rt_after_capture"
        /\ th[t].last_try # None)
       => now - th[t].last_try >= th[t].interval

\* C17, its case: the driver's loop calls capture_image a second time after
\* a first attempt on the camera that failed.
SecondAttemptAfterFailure ==
    /\ th[Main].pc = "ci_entry"
    /\ th[Main].last_try # None
    /\ camera.handle = "Ready"
    /\ image_count = 0

StartFirstStopLast ==
    [][\A t \in Runners :
          /\ InLoop(t) => th[t].started /\ th[t].stops = 0
          /\ th[t].stops > 0 => ~InLoop(t)'
          /\ (out' # out /\ out'.by = t /\ out'.kind \in {"Progress", "Photo"})
                => th[t].started /\ th[t].stops = 0 /\ InLoop(t)
          /\ (out' # out /\ out'.by = t /\ out'.kind = "SessionStop")
                => th[t].started /\ th[t].pc = "rt_finally" /\ ~InLoop(t)']_vars

\* C19: a session that took a picture, told Slack about it, and has stopped
StoppedAfterPictures ==
    /\ out.kind = "SessionStop" /\ out.by = Main
    /\ th[Main].started /\ th[Main].stops = 1 /\ th[Main].succ >= 1

\* C20: every call that an Error, Warning, TemperatureAlert or DiskAlert
\* message makes on Slack goes to the channel itself: it carries no thread_ts,
\* whether or not the notifier holds one.
AlertsPostTopLevel ==
    out.kind \in {"Error", "Warning", "TemperatureAlert", "DiskAlert"}
       => \A i \in 1..Len(out.posts) : out.posts[i].thread_ts = None

\* C20: a temperature or disk alert was posted while a thread_ts was stored
AlertPostedWithHandleSet ==
    /\ out.kind \in {"TemperatureAlert", "DiskAlert"}
    /\ out.posts # <<>>
    /\ slack.thread_ts # None

\* the flag of self.notifications that the sender of a kind tests first
FlagOf(nf, kind) ==
    CASE kind = "Error" -> nf.errors
      [] kind = "Warning" -> nf.warnings
      [] kind \in {"SessionStart", "SessionStop"} -> nf.start_stop
      [] kind = "Progress" -> nf.progress_updates
      [] kind = "Photo" -> nf.send_photos
      [] kind = "TemperatureAlert" -> nf.temperature_alerts
      [] kind = "DiskAlert" -> nf.disk_space_alerts
      [] OTHER -> TRUE

\* C21: a sender whose flag is off returns False without raising, makes no
\* call on Slack, and leaves thread_ts, last_photo_notification and
\* last_health_warning (the whole notifier) as they were.
FlagOffNoEffect ==
    [][~FlagOf(notifications, out'.kind) =>
          /\ ~out'.ret /\ ~out'.raised /\ ~out'.delivery
          /\ out'.posts = <<>>
          /\ slack' = slack
          /\ sentAt' = sentAt]_vars

\* C21: send_photo_notification was called with send_photos off while the
\* notifier holds a thread_ts
PhotoFlagOffCalled ==
    /\ out.kind = "Photo" /\ ~notifications.send_photos
    /\ slack.thread_ts # None

\* the field of the notifier that holds the last-sent time of a gated kind
Stamp(s, kind) == IF kind = "Photo" THEN s.last_photo_notification
                  ELSE s.last_health_warning

\* C22: a Photo, TemperatureAlert or DiskAlert emission that does not pass
\* its gates leaves the timestamp of its kind as it was, and the timestamp
\* changes only in an emission that passed every gate and whose message was
\* sent.
StampOnlyWhenSent ==
    [][\A k \in GatedKinds :
          out'.kind = k =>
             /\ ~out'.delivery => Stamp(slack', k) = Stamp(slack, k)
             /\ Stamp(slack', k) # Stamp(slack, k) => out'.delivery /\ out'.ret]_vars

\* C23: a photo command of the bot, whether or not a timelapse is running,
\* takes one picture: when its capture_image call has returned, image_count
\* has been increased and the reply says success.
PhotoCommandCaptures ==
    [][\A w \in Workers :
          (th[w].pc = "w_photo_done" /\ th'[w].pc = "w_idle")
             => th'[w].reply.status = "success" /\ image_count >= 1]_vars

\* C24: "@bot start I[s] D[u]" with u one of s, m, h or nothing is parsed
\* as a start command with an interval of I seconds and a duration of D, D * 60
\* or D * 3600 seconds.
StartParsed ==
    (/\ bot.pc # "received"
     /\ bot.input.form = "start"
     /\ bot.input.iunit \in {<<>>, <<"s">>})
    => bot.parsed = [type |-> "start", interval |-> bot.input.interval,
                     duration |-> bot.input.duration
                                  * (CASE bot.input.dunit = <<"m">> -> 60
                                       [] bot.input.dunit = <<"h">> -> 3600
                                       [] OTHER -> 1)]

\* C24: "@bot start 30s 10m" was parsed
StartThirtyTenMinutes ==
    /\ bot.pc = "executed"
    /\ bot.text = AtBot \o Sp \o StartWord \o Sp \o <<"3", "0", "s">> \o Sp
                  \o <<"1", "0", "m">>
    /\ config.interval = 30 /\ config.duration = 600

\* C25: a start command whose interval is written with the unit m or h, as
\* in "@bot start 5m 1h", is parsed as a start command with the interval
\* multiplied by 60 or 3600.
IntervalUnitParsed ==
    (/\ bot.pc # "received"
     /\ bot.input.form = "start"
     /\ bot.input.iunit \in {<<"m">>, <<"h">>})
    => /\ bot.parsed.type = "start"
       /\ bot.parsed.interval
            = bot.input.interval * (IF bot.input.iunit = <<"m">> THEN 60 ELSE 3600)

\* C26: a text that is none of the five commands is parsed as no command,
\* and nothing is done for it: _execute_command is not called, and the
\* configuration, the camera, the session and the notifier stay as they were.
UnrecognizedDoesNothing ==
    [][bot.input.form = "other" =>
          /\ bot'.parsed = NoCmd
          /\ bot'.pc = "ignored"
          /\ UNCHANGED <<files, host, now, config, camera, image_count, start_time,
                         slack, notifications, th, out, sentAt>>]_vars

\* C26: "@bot invalid" went through _process_mention
InvalidIgnored ==
    /\ bot.pc = "ignored"
    /\ bot.text = AtBot \o Sp \o <<"i", "n", "v", "a", "l", "i", "d">>

\* C27: in polling mode no message of the channel is handed to
\* _process_mention, and so to the execution of its command, more than once.
PolledOnce == \A m \in 1..Len(bot.runs) : bot.runs[m] <= 1

\* C28: the acknowledgment of a pushed request does not wait for the
\* execution of its command: while the thread that handles the request is
\* inside capture_image, the request has been acknowledged already.
AckedBeforeExecution ==
    \A w \in Workers : th[w].pc \in CapturePcs => ~th[w].unacked

\* C29: the thread that executes a start command leaves the command in the
\* very step that starts the loop's thread: it is idle again, with the reply
\* "started", while the new thread is at the entry of run_timelapse and has
\* neither captured nor slept; no step of any other thread is needed for it.
StartReturnsAtOnce ==
    [][\A w \in Workers :
          (th[w].pc = "w_spawn" /\ th'[w] # th[w]) =>
             /\ th'[w].pc = "w_idle"
             /\ th'[w].reply = [cmd |-> "start", status |-> "success",
                                running |-> FALSE]
             /\ \E l \in LoopThreads :
                   /\ th[l].pc = "unborn" /\ th'[l].pc = "rt_enter"
                   /\ \A k \in Threads \ {w, l} : th'[k] = th[k]]_vars

\* C29: after a start command the same thread has answered a status command
\* while the loop that the start command started is still running
StatusDuringSession ==
    \E w \in Workers, l \in LoopThreads :
        /\ th[w].pc = "w_idle" /\ th[w].reply.cmd = "status"
        /\ InLoop(l) /\ now < th[l].end_time

\* C30: with cleanup enabled and a retention limit of zero or more, the
\* cleanup leaves min(number of images, limit) images, removes only images
\* older than all the images it keeps, and so keeps the newest ones.
CleanupKeepsNewest ==
    [][(th[Main].pc = "ci_cleanup" /\ config.cleanup_old) =>
          /\ files' \subseteq files
          /\ Cardinality(files') = (IF Cardinality(files) < config.max_images
                                    THEN Cardinality(files)
                                    ELSE config.max_images)
          /\ \A f \in files \ files', g \in files' : f < g]_vars

\* C31: a health check whose sensor read raises counts as healthy: the check
\* reports a failure, which makes the loop send its warning, only after a
\* high temperature or a low disk reading, and it never sends an Error.
SensorFaultIsHealthy ==
    [][\A t \in Runners :
          (th[t].pc = "rt_health" /\ th'[t].pc = "rt_health_warn")
             => out'.kind \in {"TemperatureAlert", "DiskAlert"}]_vars

\* C32: when _setup_camera fails in the driver, it sends the one Error of
\* the run, run_timelapse is not entered (no start notification, no capture,
\* no picture), and run goes through cleanup to its end and returns False.
SetupFailureAborts ==
    [][/\ (th[Main].pc = "run_setup" /\ th'[Main] # th[Main]
           /\ camera'.handle = "None")
          => /\ out = NoOut /\ out'.kind = "Error" /\ out'.by = Caller
             /\ th'[Main].pc = "run_cleanup"
             /\ ~th'[Main].result
       /\ (th[Main].pc \in {"run_cleanup", "exit"} /\ camera.handle = "None")
          => /\ out' = out /\ slack' = slack
             /\ th'[Main].pc = "exit"
             /\ ~th'[Main].result /\ ~th'[Main].started
             /\ th'[Main].succ = 0 /\ image_count' = 0
             /\ start_time' = None]_vars

\* C32: the driver has ended after a failed _setup_camera
EndedAfterSetupFailure ==
    /\ host = "driver"
    /\ th[Main].pc = "exit"
    /\ camera.handle = "None"
    /\ out.kind = "Error"

\* C33: a stop command that arrives while the loop is in time.sleep(interval)
\* cuts the sleep short: the loop leaves the sleep before the time at which
\* the sleep would have ended by itself.
StopInterruptsSleep ==
    [][\A l \in LoopThreads :
          (th[l].stopReq /\ th[l].pc = "rt_sleeping" /\ th'[l].pc # "rt_sleeping")
             => now < th[l].wake]_vars

MainModeAfterCapture ==
    [][\A t \in Threads :
          /\ (th[t].pc = "ci_cleanup" /\ th'[t].pc # "ci_cleanup")
                => camera.mode = "main"
          /\ (th[t].pc = "ci_capture" /\ th'[t].pc # "ci_capture")
                => camera.mode = "main"]_vars

\* ---------------------------------------------------------------------
\* The driver alone (python local_tp.py), with the progress_interval and
\* photo_interval of config.yaml ranging over small non-negative integers.

IntervalChoices == {0, 1, 2}

NotificationChoicesD ==
    {[AllOn EXCEPT !.progress_interval = p, !.photo_interval = q] :
        p \in IntervalChoices, q \in IntervalChoices}

InitD ==
    /\ files = {}
    /\ bot = Bot0
    /\ host = "driver"
    /\ now = BootTime
    /\ config \in [enabled : TimelapseEnabled, interval : DriverIntervals,
                   duration : DriverDurations]
    /\ camera = NoCamera
    /\ image_count = 0
    /\ start_time = None
    /\ slack \in SlackInits
    /\ notifications \in NotificationChoicesD
    /\ th = [t \in Threads |->
                IF t = Main THEN Thread0("run_mkdir") ELSE Thread0("absent")]
    /\ out = NoOut
    /\ sentAt = [k \in GatedKinds |-> 0]

NextD ==
    \/ Tick
    \/ RunCreateOutputDirectory(Main)
    \/ RunSetupCamera(Main)
    \/ RunCreateVideo(Main)
    \/ RunFailed(Main)
    \/ RunCleanup(Main)
    \/ RtEnter(Main)
    \/ RtSendStart(Main)
    \/ RtReadConfig(Main)
    \/ RtCheckSystemHealth(Main)
    \/ RtAlertSend(Main)
    \/ RtHealthWarning(Main)
    \/ RtAfterCapture(Main)
    \/ RtWake(Main)
    \/ RtKeyboardInterrupt(Main)
    \/ RtInterrupted(Main)
    \/ RtFailed(Main)
    \/ RtFinally(Main)
    \/ CiEntry(Main)
    \/ CiCaptureFile(Main)
    \/ CiIncrRead(Main)
    \/ CiIncrWrite(Main)
    \/ CiProgress(Main)
    \/ CiPhoto(Main)
    \/ PnSwitchLow(Main)
    \/ PnCapture(Main)
    \/ PnSwitchMain(Main)
    \/ PnSend(Main)
    \/ CiCleanup(Main)
    \/ CiFail(Main)

SpecDriver == InitD /\ [][NextD]_vars

\* C36: capture_image returns False with a "Failed to capture image" error
\* only when capture_file itself raised: the handler is entered from no
\* other step, so a fault of the progress update, the photo notification or
\* the cleanup after a taken picture leaves the result True.
FailureOnlyFromCaptureFile ==
    [][\A t \in Threads :
          (th'[t].pc = "ci_fail" /\ th[t].pc # "ci_fail")
             => th[t].pc = "ci_capture"]_vars

\* C37: the camera is switched to the preview resolution, and the capture
\* to memory is made, only for a picture whose photo notification passes
\* the every-N gate and the cooldown gate: for a picture the gates suppress
\* there is no mode switch and no extra capture.
PreviewOnlyWhenGatesPass ==
    [][\A t \in Threads :
          (th[t].pc \in {"pn_switch_low", "pn_capture"}
           /\ th'[t].pc \in {"pn_capture", "pn_switch_main"}
           /\ th'[t].pc # th[t].pc)
             => /\ notifications.photo_interval # 0
                /\ PhotoGate(slack, notifications, image_count, now)]_vars

\* ---------------------------------------------------------------------
\* The driver with a clock that keeps advancing and calls that return.

\* time passes beyond the modelled horizon while the loop sleeps
SleepTick ==
    /\ now >= BootTime + HorizonDriver
    /\ \A t \in Threads : th[t].pc \in WaitingPcs
    /\ \E t \in Runners : th[t].pc = "rt_sleeping" /\ now < th[t].wake
    /\ now' = now + 1
    /\ UNCHANGED <<files, bot, host, config, camera, image_count, start_time, slack,
                   notifications, th, out, sentAt>>

NextL ==
    \/ NextD
    \/ SleepTick

\* every call returns and the clock advances: no step that can be taken is
\* put off for ever
SpecLoop == InitD /\ [][NextL]_vars /\ WF_vars(NextL)

\* C39: the loop of run_timelapse ends: no iteration begins once
\* time.time() >= end_time, the sleep that follows a capture is followed by
\* the test of the loop and by nothing else, and every run is at last
\* outside the loop for good.
LoopTerminates ==
    /\ [][\A t \in Runners :
            /\ (th'[t].pc = "rt_health" /\ th[t].pc # "rt_health")
                  => now < th'[t].end_time
            /\ (th[t].pc = "rt_sleeping"
                /\ th'[t].pc \notin {"rt_sleeping", "rt_kbint", "rt_health"})
                  => th'[t].pc = "rt_finally" /\ now >= th[t].end_time]_vars
    /\ <>[](\A t \in Runners : ~InLoop(t) /\ th[t].pc \notin SessionPcs)

\* C39: the loop has slept after its last capture and has then ended by its
\* test, past end_time
EndedByTestAfterSleep ==
    /\ th[Main].pc = "rt_finally"
    /\ out.kind = "Photo"
    /\ th[Main].succ >= 1
    /\ now >= th[Main].end_time
    /\ th[Main].end_time > 0
    /\ now > BootTime + HorizonDriver

\* C40: in polling mode no message the bot itself has posted is handed to
\* _process_mention, so a reply of the bot, the help text with its "@bot"
\* examples included, starts no further command.
OwnMessagesNotExecuted ==
    \A m \in 1..Len(bot.authors) :
       bot.authors[m] = BotUser => bot.runs[m] = 0

\* C40: a help text of the bot is in the channel and a poll has gone past it
OwnHelpTextPolled ==
    \E m \in 1..Len(bot.authors) :
       /\ bot.authors[m] = BotUser
       /\ bot.history[m]
       /\ bot.last_timestamp >= m
====
